---- MODULE Spec2Model ----
(***************************************************************************)
(* A model of the cas-app interpreter pipeline                             *)
(*     lex -> parse -> combine_like_terms -> print_out_expression          *)
(* Strings are sequences of one-character strings.  f64 values are         *)
(* records [neg, mag]: a sign bit and an integer magnitude, rounded to     *)
(* MantissaBits significant bits (round to nearest, ties to even) and      *)
(* overflowing to infinity above F64MaxMag, as IEEE-754 binary64 does with *)
(* 53 bits.  Every number the parser builds is an integer, so no           *)
(* fractional magnitudes are needed.                                       *)
(***************************************************************************)
EXTENDS Integers, Sequences, FiniteSets

\* ---------------------------------------------------------------- bounds
\* Significand width of the scaled-down f64 (53 in binary64).
MantissaBits == 5
\* Exponent of the unit in the last place of the largest finite value
\* (971 in binary64): F64MaxMag = (2^MantissaBits - 1) * 2^MaxExponent.
MaxExponent == 5
\* Longest input drawn character by character from Alphabet.
MaxLen == 3
\* Most term texts joined by '+' into one input.
MaxTerms == 2
\* Longest digit-only input (long enough to pass f64::MAX / 10).
MaxDigits == 4
\* Cap on the Vec of parsed terms (parse_expression may loop forever).
AstCap == 6
\* Most interpret() calls made one after the other.
MaxRuns == 3

\* ---------------------------------------------------------------- f64
RECURSIVE Pow2(_)
Pow2(n) == IF n <= 0 THEN 1 ELSE 2 * Pow2(n - 1)

F64MaxMag == (Pow2(MantissaBits) - 1) * Pow2(MaxExponent)
InfMag == Pow2(MantissaBits) * Pow2(MaxExponent)
NaNMag == -1

F64(neg, mag) == [neg |-> neg, mag |-> mag]
Zero == F64(FALSE, 0)
One == F64(FALSE, 1)
NaN == F64(FALSE, NaNMag)
IsNaN(a) == a.mag = NaNMag
IsInf(a) == a.mag = InfMag

\* The unit in the last place of the binade that holds the magnitude x.
RECURSIVE UlpFrom(_, _)
UlpFrom(x, u) == IF x < Pow2(MantissaBits) * u THEN u ELSE UlpFrom(x, 2 * u)

\* x rounded to a multiple of the unit u of its binade, ties to even.
RoundTo(x, u) ==
    IF 2 * (x % u) > u \/ (2 * (x % u) = u /\ (x \div u) % 2 = 1)
    THEN ((x \div u) + 1) * u
    ELSE (x \div u) * u

Overflow(m) == IF m > F64MaxMag THEN InfMag ELSE m

\* Round an exact non-negative integer to the nearest representable
\* magnitude, ties to even; InfMag on overflow.
RoundMag(x) == Overflow(RoundTo(x, UlpFrom(x, 1)))

\* f64::MAX / 10.0, the quotient rounded to nearest (ties to even).
F64MaxDiv10 ==
    LET u == UlpFrom(F64MaxMag \div 10, 1)
        q == F64MaxMag \div (10 * u)
        r == F64MaxMag - q * 10 * u
        up == 2 * r > 10 * u \/ (2 * r = 10 * u /\ q % 2 = 1)
    IN F64(FALSE, (IF up THEN q + 1 ELSE q) * u)

Signed(a) == IF a.neg THEN 0 - a.mag ELSE a.mag
Abs(n) == IF n < 0 THEN 0 - n ELSE n

\* a + b
FAdd(a, b) ==
    IF IsNaN(a) \/ IsNaN(b) THEN NaN
    ELSE IF IsInf(a) /\ IsInf(b) THEN (IF a.neg = b.neg THEN a ELSE NaN)
    ELSE IF IsInf(a) THEN a
    ELSE IF IsInf(b) THEN b
    ELSE LET v == Signed(a) + Signed(b)
         IN IF v = 0 THEN F64(a.neg /\ b.neg, 0)
            ELSE F64(v < 0, RoundMag(Abs(v)))

\* a * 10.0
FMul10(a) ==
    IF IsNaN(a) \/ IsInf(a) THEN a ELSE F64(a.neg, RoundMag(a.mag * 10))

\* a * (if sign { 1.0 } else { -1.0 })
FMulSign(a, sign) ==
    IF IsNaN(a) THEN a ELSE F64(IF sign THEN a.neg ELSE ~a.neg, a.mag)

\* a == b on f64: NaN equals nothing, -0.0 equals 0.0.
FEq(a, b) ==
    /\ ~IsNaN(a)
    /\ ~IsNaN(b)
    /\ a.mag = b.mag
    /\ (a.mag = 0 \/ a.neg = b.neg)

\* a < b on f64 (false when either is NaN).
FLt(a, b) == ~IsNaN(a) /\ ~IsNaN(b) /\ Signed(a) < Signed(b)

\* a >= b on f64 (false when either is NaN).
FGe(a, b) == ~IsNaN(a) /\ ~IsNaN(b) /\ Signed(a) >= Signed(b)

\* a.partial_cmp(&b).unwrap_or(Ordering::Equal)
FPartialCmpOrEqual(a, b) ==
    IF FLt(a, b) THEN "Less" ELSE IF FLt(b, a) THEN "Greater" ELSE "Equal"

\* ------------------------------------------------------- HashableFloat
\* approx_eq: exact equality, both NaN, or a relative difference below
\* EPSILON = 2^-(MantissaBits - 1).  Both operands are integers here, so
\* the near-zero branch (diff < EPSILON) is false for unequal values, and a
\* non-finite operand makes the quotient NaN.  fl(diff / max) < EPSILON
\* holds exactly when diff / max < EPSILON * (1 - 2^-(MantissaBits + 1)).
approx_eq(a, b) ==
    IF FEq(a, b) THEN TRUE
    ELSE IF IsNaN(a) /\ IsNaN(b) THEN TRUE
    ELSE IF IsNaN(a) \/ IsNaN(b) \/ IsInf(a) \/ IsInf(b) THEN FALSE
    ELSE IF a.mag = 0 \/ b.mag = 0 THEN FALSE
    ELSE LET diff == RoundMag(Abs(Signed(a) - Signed(b)))
             big == IF a.mag > b.mag THEN a.mag ELSE b.mag
         IN diff * Pow2(2 * MantissaBits) < big * (Pow2(MantissaBits + 1) - 1)

\* normalized(): (x / EPSILON).round() * EPSILON.  The division is exact
\* for an integer x unless it overflows to infinity.
normalized(a) ==
    IF IsNaN(a) \/ IsInf(a) THEN a
    ELSE F64(a.neg, IF RoundMag(a.mag * Pow2(MantissaBits - 1)) = InfMag
                    THEN InfMag ELSE a.mag)

\* The bits fed to the hasher by impl Hash for HashableFloat.
hash(a) ==
    LET n == normalized(a)
    IN IF n.mag = 0 THEN Zero ELSE IF IsNaN(n) THEN NaN ELSE n

\* ---------------------------------------------------------- characters
Digits == <<"0", "1", "2", "3", "4", "5", "6", "7", "8", "9">>
DigitSet == {Digits[i] : i \in 1..10}
\* U+00B2: char::is_numeric is true, char::to_digit(10) is None.
OtherNumeric == {"superscript2"}
Whitespace == {" "}
symbols == {"+", "-", "*", "/", "(", ")", "^", "=", "|"}
keywords == {<<"a", "b", "s">>, <<"s", "q", "r", "t">>, <<"p", "o", "w">>,
             <<"p", "i">>, <<"e">>}

is_whitespace(c) == c \in Whitespace
is_numeric(c) == c \in DigitSet \cup OtherNumeric
\* c.to_digit(10): the digit's value, or -1 for None.
to_digit(c) ==
    IF c \in DigitSet THEN (CHOOSE i \in 1..10 : Digits[i] = c) - 1 ELSE -1

\* Characters in code-point order, for String comparison.
CharOrder == <<"0", "1", "2", "3", "4", "5", "6", "7", "8", "9",
               "N", "a", "e", "f", "i", "n", "x", "y", "z", "superscript2">>
CharCode(c) == CHOOSE i \in 1..Len(CharOrder) : CharOrder[i] = c

VARIABLES
    pending,     \* inputs still to be given to interpret(), in call order
    results,     \* one [input, status, output] per finished interpret() call
    pc,          \* "call", "parse" or "print": where the current call stands
    input,       \* the argument of the current call
    tokens,      \* the VecDeque<Token> the parser drains
    ast,         \* the Vec of Term nodes parse_expression has pushed
    expression,  \* the ParsedExpression [terms, variables]
    keys         \* the sorted signatures print_out_expression walks

vars == <<pending, results, pc, input, tokens, ast, expression, keys>>

\* --------------------------------------------------------------- lexer
\* Token::Identifier(text), Token::Number(n), Token::Symbol(c)
Identifier(s) == [kind |-> "Identifier", text |-> s, n |-> Zero]
Number(f) == [kind |-> "Number", text |-> <<>>, n |-> f]
Symbol(c) == [kind |-> "Symbol", text |-> <<c>>, n |-> Zero]

IsSymbol(toks, c) == toks # <<>> /\ Head(toks) = Symbol(c)
IsNumber(toks) == toks # <<>> /\ Head(toks).kind = "Number"
IsIdentifier(toks) == toks # <<>> /\ Head(toks).kind = "Identifier"

\* tokens.push_back(Token::Identifier(current_token)) when it is not empty
Flush(toks, current_token) ==
    IF current_token # <<>> THEN Append(toks, Identifier(current_token)) ELSE toks

\* The body of `for c in arg.chars()` from character i on, then the final
\* flush.  ok = FALSE is the panic of to_digit(10).unwrap() on None.
RECURSIVE lex_from(_, _, _, _)
lex_from(arg, i, toks, current_token) ==
    IF i > Len(arg)
    THEN [ok |-> TRUE, tokens |-> Flush(toks, current_token)]
    ELSE LET c == arg[i]
         IN IF is_whitespace(c)
            THEN lex_from(arg, i + 1, toks, current_token)
            ELSE IF c \in symbols
            THEN lex_from(arg, i + 1,
                          Append(Flush(toks, current_token), Symbol(c)), <<>>)
            ELSE IF current_token \in keywords
            THEN lex_from(arg, i + 1, Flush(toks, current_token), <<c>>)
            ELSE IF is_numeric(c)
            THEN IF to_digit(c) < 0
                 THEN [ok |-> FALSE, tokens |-> <<>>]
                 ELSE lex_from(arg, i + 1,
                               Append(Flush(toks, current_token),
                                      Number(F64(FALSE, to_digit(c)))),
                               <<>>)
            ELSE lex_from(arg, i + 1, toks, Append(current_token, c))

lex(arg) == lex_from(arg, 1, <<>>, <<>>)

\* -------------------------------------------------------------- parser
\* ASTNode::Number(f) is the f64 f; ASTNode::Variable(name, exponent) and
\* ASTNode::Term(coefficient, variables) are records.
Variable(name, exponent) == [name |-> name, exponent |-> exponent]
Term(coefficient, vs) == [coefficient |-> coefficient, variables |-> vs]

\* get_sign with the sign read so far: [sign, tokens].
RECURSIVE get_sign_from(_, _)
get_sign_from(toks, sign) ==
    IF IsSymbol(toks, "-") THEN get_sign_from(Tail(toks), ~sign)
    ELSE IF IsSymbol(toks, "+") THEN get_sign_from(Tail(toks), sign)
    ELSE [sign |-> sign, tokens |-> toks]

\* A get_sign in which '+' flips the sign as '-' does.
RECURSIVE get_sign_plus_flips_from(_, _)
get_sign_plus_flips_from(toks, sign) ==
    IF IsSymbol(toks, "-") \/ IsSymbol(toks, "+")
    THEN get_sign_plus_flips_from(Tail(toks), ~sign)
    ELSE [sign |-> sign, tokens |-> toks]

get_sign_plus_flips(toks) == get_sign_plus_flips_from(toks, TRUE)

get_sign(toks) == get_sign_from(toks, TRUE)

\* A digit loop without the `accumulator >= f64::MAX / 10.0` test.
RECURSIVE accumulate_unguarded(_, _)
accumulate_unguarded(toks, accumulator) ==
    IF IsNumber(toks)
    THEN accumulate_unguarded(Tail(toks), FAdd(FMul10(accumulator), Head(toks).n))
    ELSE [ok |-> TRUE, accumulator |-> accumulator, tokens |-> toks]

\* The digit loop of parse_constant: [ok, accumulator, tokens].
RECURSIVE accumulate(_, _)
accumulate(toks, accumulator) ==
    IF IsNumber(toks)
    THEN IF FGe(accumulator, F64MaxDiv10)
         THEN [ok |-> FALSE, accumulator |-> accumulator, tokens |-> toks]
         ELSE accumulate(Tail(toks), FAdd(FMul10(accumulator), Head(toks).n))
    ELSE [ok |-> TRUE, accumulator |-> accumulator, tokens |-> toks]

\* The return of parse_constant, given what get_sign and the digit loop
\* left: [ok, node, tokens].
constant_node(sign, a) ==
    [ok |-> a.ok, node |-> FMulSign(a.accumulator, sign), tokens |-> a.tokens]

constant_after_sign(s) == constant_node(s.sign, accumulate(s.tokens, Zero))

\* parse_constant: [ok, node, tokens]; ok = FALSE is
\* Err(InterpreterError::unsupported_number).
parse_constant(toks) == constant_after_sign(get_sign(toks))

\* parse_optional_exponent: [ok, node, tokens].
parse_optional_exponent(toks) ==
    IF IsSymbol(toks, "^") THEN parse_constant(Tail(toks))
    ELSE [ok |-> TRUE, node |-> One, tokens |-> toks]

\* The variables of the popped identifier var_string, the last of them with
\* the exponent e that parse_optional_exponent returned.
identifier_variables(var_string, e) ==
    [ok |-> e.ok,
     variables |->
         IF Len(var_string) > 1
         THEN Append([i \in 1..(Len(var_string) - 1) |->
                          Variable(var_string[i], One)],
                     Variable(var_string[Len(var_string)], e.node))
         ELSE <<Variable(var_string[1], e.node)>>,
     tokens |-> e.tokens]

\* parse_optional_variables: [ok, variables, tokens].
parse_optional_variables(toks) ==
    IF IsIdentifier(toks)
    THEN identifier_variables(Head(toks).text, parse_optional_exponent(Tail(toks)))
    ELSE [ok |-> TRUE, variables |-> <<>>, tokens |-> toks]

\* The end of parse_term, once the coefficient c and the variables v are
\* read: pop a '+', then settle the implicit coefficient.
term_node(before_constant_length, c, v) ==
    IF ~v.ok THEN [ok |-> FALSE, term |-> Term(Zero, <<>>), tokens |-> v.tokens]
    ELSE [ok |-> TRUE,
          term |-> Term(IF Len(v.variables) > 0 /\ FEq(c.node, Zero)
                        THEN (IF before_constant_length = Len(c.tokens)
                              THEN One ELSE Zero)
                        ELSE c.node,
                        v.variables),
          tokens |-> IF IsSymbol(v.tokens, "+") THEN Tail(v.tokens) ELSE v.tokens]

term_after_constant(before_constant_length, c) ==
    IF ~c.ok THEN [ok |-> FALSE, term |-> Term(Zero, <<>>), tokens |-> c.tokens]
    ELSE term_node(before_constant_length, c, parse_optional_variables(c.tokens))

\* parse_term: [ok, term, tokens].
parse_term(toks) == term_after_constant(Len(toks), parse_constant(toks))

\* ---------------------------------------------------- ParsedExpression
\* A signature is a Vec<(String, HashableFloat)>: a sequence of
\* <<name, exponent>> pairs.  `terms` is a function from the stored keys to
\* their coefficients.
new == [terms |-> [k \in {} |-> Zero], variables |-> {}]

\* Vec<(String, HashableFloat)> == : String equality and approx_eq.
sig_eq(a, b) ==
    /\ Len(a) = Len(b)
    /\ \A i \in 1..Len(a) : a[i][1] = b[i][1] /\ approx_eq(a[i][2], b[i][2])

\* What Hash feeds the hasher for a signature.
sig_hash(a) == [i \in 1..Len(a) |-> <<a[i][1], hash(a[i][2])>>]

\* The stored keys a HashMap lookup of `term` can land on.  A key that is
\* equal and hashes alike is found.  A key that is equal but hashes
\* differently is found only when the two hashes collide in the table
\* (`collide`), which the map's random hasher decides: HashMap leaves the
\* outcome unspecified when Hash and Eq disagree.
lookup(self, term, collide) ==
    {k \in DOMAIN self.terms :
        sig_eq(k, term) /\ (collide \/ sig_hash(k) = sig_hash(term))}

\* add_term: the set of ParsedExpressions the call can leave (one, unless
\* the lookup can land on several stored keys).
add_term(self, term, coefficient, collide) ==
    IF FEq(coefficient, Zero) THEN {self}
    ELSE LET vs == IF Len(term) > 0
                   THEN self.variables \cup {term[1][1]}
                   ELSE self.variables
             found == lookup(self, term, collide)
         IN IF found # {}
            THEN {[terms |-> [self.terms EXCEPT ![k] = FAdd(@, coefficient)],
                   variables |-> vs] : k \in found}
            ELSE {[terms |-> [k \in DOMAIN self.terms \cup {term} |->
                                 IF k = term THEN coefficient ELSE self.terms[k]],
                   variables |-> vs]}

\* get_term
get_term(self, term) == self.terms[term]

\* get_variables
get_variables(self) == self.variables

str_cmp(a, b) ==
    IF CharCode(a) < CharCode(b) THEN "Less"
    ELSE IF CharCode(a) > CharCode(b) THEN "Greater" ELSE "Equal"

int_cmp(a, b) == IF a < b THEN "Less" ELSE IF a > b THEN "Greater" ELSE "Equal"

\* The comparison loop of get_sorted_term_sigs over the zipped elements.
RECURSIVE zip_cmp(_, _, _)
zip_cmp(a, b, i) ==
    IF i > Len(a) \/ i > Len(b) THEN int_cmp(Len(a), Len(b))
    ELSE IF str_cmp(a[i][1], b[i][1]) # "Equal" THEN str_cmp(a[i][1], b[i][1])
    ELSE IF FPartialCmpOrEqual(b[i][2], a[i][2]) # "Equal"
    THEN FPartialCmpOrEqual(b[i][2], a[i][2])
    ELSE zip_cmp(a, b, i + 1)

\* A sort_by closure whose empty-signature case compares a.len() with
\* b.len(), which puts the constant term first.
sig_cmp_constant_first(a, b) ==
    IF Len(a) = 0 \/ Len(b) = 0 THEN int_cmp(Len(a), Len(b))
    ELSE zip_cmp(a, b, 1)

\* The closure given to keys.sort_by in get_sorted_term_sigs.
sig_cmp(a, b) ==
    IF Len(a) = 0 \/ Len(b) = 0 THEN int_cmp(Len(b), Len(a))
    ELSE zip_cmp(a, b, 1)

\* The closure given to term_identifier.sort_by in combine_like_terms.
var_cmp(a, b) ==
    IF str_cmp(a[1], b[1]) # "Equal" THEN str_cmp(a[1], b[1])
    ELSE FPartialCmpOrEqual(a[2], b[2])

compare(which, a, b) == IF which = "sig" THEN sig_cmp(a, b) ELSE var_cmp(a, b)

\* slice::sort_by (stable; an insertion sort on slices this short).
RECURSIVE insert_pos(_, _, _, _)
insert_pos(which, s, x, j) ==
    IF j = 0 THEN 0
    ELSE IF compare(which, x, s[j]) = "Less" THEN insert_pos(which, s, x, j - 1)
    ELSE j

RECURSIVE sort_by(_, _)
sort_by(which, s) ==
    IF Len(s) <= 1 THEN s
    ELSE LET front == sort_by(which, SubSeq(s, 1, Len(s) - 1))
             x == s[Len(s)]
             p == insert_pos(which, front, x, Len(front))
         IN SubSeq(front, 1, p) \o <<x>> \o SubSeq(front, p + 1, Len(front))

\* get_sorted_term_sigs, given the order in which terms.keys() yields.
get_sorted_term_sigs(iteration) == sort_by("sig", iteration)

\* --------------------------------------------------------- Interpreter
\* The signature combine_like_terms builds for one Term.
term_identifier(term) ==
    IF Len(term.variables) = 0 THEN <<>>
    ELSE sort_by("var", [i \in 1..Len(term.variables) |->
                            <<term.variables[i].name, term.variables[i].exponent>>])

\* combine_like_terms from term i on, over every accumulator reached so far.
RECURSIVE combine_from(_, _, _, _)
combine_from(terms, i, accumulators, collide) ==
    IF i > Len(terms) THEN accumulators
    ELSE combine_from(terms, i + 1,
                      UNION {add_term(a, term_identifier(terms[i]),
                                      terms[i].coefficient, collide) :
                             a \in accumulators},
                      collide)

combine_like_terms(terms, collide) == combine_from(terms, 1, {new}, collide)

RECURSIVE DecDigits(_)
DecDigits(n) ==
    IF n < 10 THEN <<Digits[n + 1]>>
    ELSE Append(DecDigits(n \div 10), Digits[(n % 10) + 1])

\* format!("{}", f) for an f64.
fmt_f64(f) ==
    IF IsNaN(f) THEN <<"N", "a", "N">>
    ELSE (IF f.neg THEN <<"-">> ELSE <<>>)
         \o (IF IsInf(f) THEN <<"i", "n", "f">> ELSE DecDigits(f.mag))

\* The text pushed for the variables of a signature, from pair i on.
RECURSIVE fmt_variables(_, _)
fmt_variables(signature, i) ==
    IF i > Len(signature) THEN <<>>
    ELSE (IF ~approx_eq(signature[i][2], One)
          THEN <<signature[i][1], "^">> \o fmt_f64(signature[i][2])
          ELSE <<signature[i][1]>>)
         \o fmt_variables(signature, i + 1)

\* The text pushed by one iteration of the output loop.
fmt_term(self, ks, i) ==
    LET coefficient == get_term(self, ks[i])
    IN (IF ~approx_eq(coefficient, One) \/ Len(ks[i]) = 0
        THEN fmt_f64(coefficient) ELSE <<>>)
       \o fmt_variables(ks[i], 1)
       \o (IF i < Len(ks) THEN <<" ", "+", " ">> ELSE <<>>)

RECURSIVE fmt_terms(_, _, _)
fmt_terms(self, ks, i) ==
    IF i > Len(ks) THEN <<>> ELSE fmt_term(self, ks, i) \o fmt_terms(self, ks, i + 1)

\* A print_out_expression without the "zero cases" loop.
zero_flag_skipped(self, ks) == FALSE

\* zero_flag after the "zero cases" loop.
zero_flag(self, ks) ==
    Len(ks) > 0 /\ \A i \in 1..Len(ks) : FEq(get_term(self, ks[i]), Zero)

\* print_out_expression, given the sorted keys.
print_out_expression(self, ks) ==
    IF Len(ks) = 0 \/ zero_flag(self, ks) THEN <<"0">> ELSE fmt_terms(self, ks, 1)

\* A solve without the early return for an empty term list.
solve_never_empty(terms) == FALSE

\* solve: `if terms.len() == 0 { return Ok("".to_string()); }`
solve_returns_empty(terms) == Len(terms) = 0

\* -------------------------------------------------------------- inputs
Alphabet == {"0", "1", "x", "y", "e", "+", "-", "^", "*", " "}

RECURSIVE StringsUpTo(_, _)
StringsUpTo(chars, n) ==
    IF n = 0 THEN {<<>>}
    ELSE LET shorter == StringsUpTo(chars, n - 1)
         IN shorter \cup {Append(s, c) : s \in shorter, c \in chars}

\* Term texts of the input grammar
\*   term := sign* digit* identifier? ('^' sign* digit*)?
TermTexts ==
    {<<"x">>, <<"1", "x">>, <<"2", "x">>, <<"-", "1", "x">>, <<"0", "x">>,
     <<"x", "y">>, <<"y", "x">>, <<"x", "^", "2">>, <<"x", "^">>,
     <<"x", "^", "1", "6">>, <<"x", "^", "1", "7">>,
     <<"2">>, <<"-", "2">>, <<"-">>}

RECURSIVE SeqPerms(_)
SeqPerms(S) ==
    IF S = {} THEN {<<>>}
    ELSE UNION {{<<x>> \o q : q \in SeqPerms(S \ {x})} : x \in S}

RECURSIVE Join(_)
Join(texts) ==
    IF Len(texts) = 0 THEN <<>>
    ELSE IF Len(texts) = 1 THEN texts[1]
    ELSE texts[1] \o <<"+">> \o Join(Tail(texts))

TermLists == UNION {[1..n -> TermTexts] : n \in 1..MaxTerms}

Numerals == StringsUpTo({"0", "1", "9"}, MaxDigits)

\* Inputs with a numeric character that is not an ASCII digit.
NonAsciiInputs ==
    {<<"superscript2">>, <<"x", "superscript2">>, <<"e", "superscript2">>}

Inputs ==
    StringsUpTo(Alphabet, MaxLen)
    \cup {Join(ts) : ts \in TermLists}
    \cup Numerals
    \cup {<<"x", "^">> \o d : d \in Numerals}
    \cup NonAsciiInputs

\* Term texts for the runs that compare two orders of the same terms.
PermTexts ==
    {<<"x">>, <<"2", "x">>, <<"x", "y">>, <<"x", "^", "2">>, <<"x", "^">>,
     <<"2">>, <<"-", "1">>, <<"-">>}

PermLists == UNION {[1..n -> PermTexts] : n \in 1..MaxTerms}

Permuted(ts, q) == [i \in 1..Len(ts) |-> ts[q[i]]]

PermInputs ==
    UNION {{<<Join(ts), Join(Permuted(ts, q))>> : q \in SeqPerms(1..Len(ts))} :
           ts \in PermLists}

\* ------------------------------------------------------- state machine
Result(in, status, output) == [input |-> in, status |-> status, output |-> output]

Start ==
    /\ results = <<>>
    /\ pc = "call"
    /\ input = <<>>
    /\ tokens = <<>>
    /\ ast = <<>>
    /\ expression = new
    /\ keys = <<>>

\* One input, whose output may then be fed back.
Init == pending \in {<<s>> : s \in Inputs} /\ Start

\* The same terms joined in two orders, interpreted one after the other.
InitPerm == pending \in PermInputs /\ Start

\* interpret(input) is called: Interpreter::lex runs, and the parser gets
\* the token queue.  A panic in the lexer ends the call.
Lex ==
    /\ pc = "call"
    /\ pending # <<>>
    /\ input' = Head(pending)
    /\ pending' = Tail(pending)
    /\ ast' = <<>>
    /\ expression' = new
    /\ keys' = <<>>
    /\ \E l \in {lex(Head(pending))} :
           /\ tokens' = l.tokens
           /\ IF l.ok
              THEN /\ pc' = "parse"
                   /\ UNCHANGED results
              ELSE /\ pc' = "call"
                   /\ results' = Append(results, Result(Head(pending), "Panic", <<>>))

\* One iteration of `while tokens.len() > 0` in parse_expression.
ParseTerm ==
    /\ pc = "parse"
    /\ Len(tokens) > 0
    /\ Len(ast) < AstCap
    /\ \E t \in {parse_term(tokens)} :
           /\ tokens' = t.tokens
           /\ IF t.ok
              THEN /\ ast' = Append(ast, t.term)
                   /\ UNCHANGED <<results, pc>>
              ELSE /\ results' = Append(results, Result(input, "Err", <<>>))
                   /\ pc' = "call"
                   /\ UNCHANGED ast
    /\ UNCHANGED <<pending, input, expression, keys>>

\* The loop ends, parse returns Ok(Expression(terms)), and interpret calls
\* solve: no terms give Ok(""), otherwise combine_like_terms runs.
Solve ==
    /\ pc = "parse"
    /\ Len(tokens) = 0
    /\ IF solve_returns_empty(ast)
       THEN /\ results' = Append(results, Result(input, "Ok", <<>>))
            /\ pc' = "call"
            /\ UNCHANGED expression
       ELSE /\ \E collide \in BOOLEAN :
                 expression' \in combine_like_terms(ast, collide)
            /\ pc' = "print"
            /\ UNCHANGED results
    /\ UNCHANGED <<pending, input, tokens, ast, keys>>

\* print_out_expression: terms.keys() yields in any order, sort_by orders
\* them, and the output string is returned through solve and interpret.
PrintOut ==
    /\ pc = "print"
    /\ \E iteration \in SeqPerms(DOMAIN expression.terms) :
           /\ keys' = get_sorted_term_sigs(iteration)
           /\ results' = Append(results,
                  Result(input, "Ok", print_out_expression(expression, keys')))
    /\ pc' = "call"
    /\ UNCHANGED <<pending, input, tokens, ast, expression>>

\* The caller feeds the output of the last call back to interpret().
Resubmit ==
    /\ pc = "call"
    /\ pending = <<>>
    /\ results # <<>>
    /\ Len(results) < MaxRuns
    /\ results[Len(results)].status = "Ok"
    /\ pending' = <<results[Len(results)].output>>
    /\ UNCHANGED <<results, pc, input, tokens, ast, expression, keys>>

Next == Lex \/ ParseTerm \/ Solve \/ PrintOut \/ Resubmit

Spec == Init /\ [][Next]_vars

SpecPerm == InitPerm /\ [][Next]_vars

\* The same input interpreted twice, by two runs of the program.
InitTwice == pending \in {<<s, s>> : s \in Inputs} /\ Start

SpecTwice == InitTwice /\ [][Next]_vars

\* ------------------------------------------------------------- results
Last == results[Len(results)]

\* The last interpret() call has returned Ok.
Finished == pc = "call" /\ results # <<>> /\ Last.status = "Ok"

\* ... and its output came from print_out_expression.
Rendered == Finished /\ ast # <<>>

\* a and b are the same f64 value.
SameF64(a, b) == a = b \/ FEq(a, b)

\* Two signatures with identical (name, exponent) pairs.
SameSignature(a, b) ==
    /\ Len(a) = Len(b)
    /\ \A i \in 1..Len(a) : a[i][1] = b[i][1] /\ SameF64(a[i][2], b[i][2])

\* The sum, in input order, of the coefficients of the first i parsed terms
\* whose sorted (name, exponent) pairs are identical to sig.
RECURSIVE SumOfLike(_, _)
SumOfLike(sig, i) ==
    IF i = 0 THEN Zero
    ELSE IF SameSignature(term_identifier(ast[i]), sig)
    THEN FAdd(SumOfLike(sig, i - 1), ast[i].coefficient)
    ELSE SumOfLike(sig, i - 1)

AllZero ==
    \/ \A i \in 1..Len(ast) : FEq(ast[i].coefficient, Zero)
    \/ \A k \in DOMAIN expression.terms : FEq(expression.terms[k], Zero)

\* The tokens left after the first n.
Drop(toks, n) == SubSeq(toks, n + 1, Len(toks))

\* The length of the run of '+' and '-' symbols at the front of toks.
RECURSIVE SignRunLen(_)
SignRunLen(toks) ==
    IF IsSymbol(toks, "+") \/ IsSymbol(toks, "-")
    THEN 1 + SignRunLen(Tail(toks)) ELSE 0

\* The length of the run of digit tokens at the front of toks.
RECURSIVE DigitRunLen(_)
DigitRunLen(toks) == IF IsNumber(toks) THEN 1 + DigitRunLen(Tail(toks)) ELSE 0

MinusCount(toks, n) == Cardinality({i \in 1..n : toks[i] = Symbol("-")})

\* The value accumulated from the first n digit tokens of toks.
RECURSIVE RunValue(_, _)
RunValue(toks, n) ==
    IF n = 0 THEN Zero ELSE FAdd(FMul10(RunValue(toks, n - 1)), toks[n].n)

\* The digit run of the coefficient of the term at the front of toks.
CoefficientRun(toks) == Drop(toks, SignRunLen(toks))

AfterCoefficient(toks) ==
    Drop(CoefficientRun(toks), DigitRunLen(CoefficientRun(toks)))

\* The digit run of the exponent of the term at the front of toks.
ExponentRun(toks) ==
    IF IsIdentifier(AfterCoefficient(toks))
       /\ IsSymbol(Tail(AfterCoefficient(toks)), "^")
    THEN CoefficientRun(Drop(AfterCoefficient(toks), 2))
    ELSE <<>>

\* Reading the digit run at the front of toks reaches f64::MAX / 10 with
\* another digit still to come.
Overflows(toks) ==
    \E n \in 1..(DigitRunLen(toks) - 1) : FGe(RunValue(toks, n), F64MaxDiv10)

IsFinite(a) == a.mag >= 0 /\ a.mag <= F64MaxMag

FiniteNumerals ==
    \A i \in 1..Len(ast) :
        /\ IsFinite(ast[i].coefficient)
        /\ \A j \in 1..Len(ast[i].variables) :
               IsFinite(ast[i].variables[j].exponent)

NamesAscending(sig) ==
    \A i \in 1..(Len(sig) - 1) : CharCode(sig[i][1]) <= CharCode(sig[i + 1][1])

\* The positions at which the pairs of a and b differ.
Differ(a, b) ==
    {i \in 1..(IF Len(a) < Len(b) THEN Len(a) ELSE Len(b)) :
        a[i][1] # b[i][1] \/ ~SameF64(a[i][2], b[i][2])}

FirstOf(D) == CHOOSE i \in D : \A j \in D : i <= j

\* a comes before b in the canonical order: the constant last, otherwise at
\* the first pair that differs the smaller name, or the same name with the
\* larger exponent, and a proper prefix first.
CanonBefore(a, b) ==
    IF a = <<>> THEN FALSE
    ELSE IF b = <<>> THEN TRUE
    ELSE IF Differ(a, b) = {} THEN Len(a) < Len(b)
    ELSE \/ CharCode(a[FirstOf(Differ(a, b))][1]) < CharCode(b[FirstOf(Differ(a, b))][1])
         \/ /\ a[FirstOf(Differ(a, b))][1] = b[FirstOf(Differ(a, b))][1]
            /\ FLt(b[FirstOf(Differ(a, b))][2], a[FirstOf(Differ(a, b))][2])

\* -------------------------------------------------------------- claims

\* C1 (checked under SpecPerm): the terms of an input, joined by '+' in two
\* different orders, interpret to the same result.
C1_OrderIndependence ==
    Len(results) >= 2 =>
        /\ results[1].status = results[2].status
        /\ results[1].output = results[2].output

\* C2: every stored coefficient is the sum of the coefficients of exactly
\* the parsed terms whose sorted (name, exponent) pairs are identical to its
\* signature, every term with a non-zero sum has an entry, and the output is
\* the rendering of those sums.
C2_LikeTermFusion ==
    Rendered =>
        /\ \A k \in DOMAIN expression.terms :
               SameF64(expression.terms[k], SumOfLike(k, Len(ast)))
        /\ \A i \in 1..Len(ast) :
               ~FEq(SumOfLike(term_identifier(ast[i]), Len(ast)), Zero)
                   => \E k \in DOMAIN expression.terms :
                          SameSignature(k, term_identifier(ast[i]))
        /\ Last.output =
               print_out_expression(
                   [terms |-> [k \in DOMAIN expression.terms |->
                                  SumOfLike(k, Len(ast))],
                    variables |-> expression.variables],
                   keys)

C4_ParserTotality ==
    [][pc = "parse" /\ Len(tokens) > 0 => Len(tokens') < Len(tokens)]_vars

\* C5: interpreting the output of a successful call again succeeds and
\* gives the same output.
C5_RoundTrip ==
    \A i \in 1..(Len(results) - 1) :
        results[i].status = "Ok" /\ results[i + 1].input = results[i].output
            => /\ results[i + 1].status = "Ok"
               /\ results[i + 1].output = results[i].output

\* C6: the rendered terms are the stored signatures, each once, in the
\* canonical order (name ascending, exponent descending, a proper prefix
\* first, the constant last), the variables of each in ascending name order
\* whatever order they were written in.
C6_CanonicalOrdering ==
    Rendered =>
        /\ Len(keys) = Cardinality(DOMAIN expression.terms)
        /\ {keys[i] : i \in 1..Len(keys)} = DOMAIN expression.terms
        /\ \A i, j \in 1..Len(keys) : i < j => CanonBefore(keys[i], keys[j])
        /\ \A i \in 1..Len(keys) : NamesAscending(keys[i])
        /\ \A i \in 1..Len(ast) :
               ~FEq(ast[i].coefficient, Zero)
                   => \E j \in 1..Len(keys) :
                          sig_eq(keys[j], term_identifier(ast[i]))
        /\ ~AllZero => Last.output = fmt_terms(expression, keys, 1)

\* Two terms were rendered in the opposite of their written order, and a
\* term's variables in the opposite of theirs.
C6_Witness ==
    /\ Rendered
    /\ Len(keys) >= 2
    /\ Len(ast) >= 2
    /\ sig_eq(keys[2], term_identifier(ast[1]))
    /\ \E i \in 1..Len(ast) :
           /\ Len(ast[i].variables) >= 2
           /\ CharCode(ast[i].variables[1].name) > CharCode(ast[i].variables[2].name)

\* C7: a term that starts with a run of '+'/'-' symbols and then a digit
\* run of value c is parsed with coefficient -c when the run holds an odd
\* number of '-', and c when it holds an even number.
C7_SignFolding ==
    [][pc = "parse"
       /\ DigitRunLen(CoefficientRun(tokens)) >= 1
       /\ Len(ast') = Len(ast) + 1
       => SameF64(ast'[Len(ast')].coefficient,
                  FMulSign(RunValue(CoefficientRun(tokens),
                                    DigitRunLen(CoefficientRun(tokens))),
                           MinusCount(tokens, SignRunLen(tokens)) % 2 = 0))]_vars

\* A term written with a run of both '+' and '-', an odd number of them
\* '-', was parsed with a negative coefficient.
C7_Witness ==
    /\ pc = "parse"
    /\ Len(ast) = 1
    /\ SignRunLen(lex(input).tokens) >= 2
    /\ MinusCount(lex(input).tokens, SignRunLen(lex(input).tokens)) = 1
    /\ DigitRunLen(CoefficientRun(lex(input).tokens)) >= 1
    /\ ast[1].coefficient.neg
    /\ ast[1].coefficient.mag > 0

\* C8: when the digit run of a term's coefficient or exponent reaches
\* f64::MAX / 10 with a digit still to come, the call ends in an error with
\* no output; and every numeral that was accepted is finite.
C8_OverflowFailure ==
    /\ []FiniteNumerals
    /\ [][pc = "parse"
          /\ (Overflows(CoefficientRun(tokens)) \/ Overflows(ExponentRun(tokens)))
          => /\ pc' = "call"
             /\ results' = Append(results, Result(input, "Err", <<>>))]_vars

\* A call ended in the overflow error.
C8_Witness ==
    /\ pc = "call"
    /\ results # <<>>
    /\ Last.status = "Err"
    /\ Overflows(CoefficientRun(lex(Last.input).tokens))

\* C9: an input that lexes to no tokens parses to zero terms, and the call
\* returns Ok with the empty string.
C9_EmptyInput ==
    /\ \A i \in 1..Len(results) :
           lex(results[i].input) = [ok |-> TRUE, tokens |-> <<>>]
               => results[i].status = "Ok" /\ results[i].output = <<>>
    /\ lex(input) = [ok |-> TRUE, tokens |-> <<>>] => ast = <<>>

\* A whitespace-only input returned Ok.
C9_Witness ==
    /\ Finished
    /\ Last.input = <<" ", " ">>
    /\ Last.output = <<>>

\* C10: an input made only of '+' and '-' returns Ok with the empty string.
C10_SignOnly ==
    \A i \in 1..Len(results) :
        /\ results[i].input # <<>>
        /\ \A j \in 1..Len(results[i].input) : results[i].input[j] \in {"+", "-"}
        => results[i].status = "Ok" /\ results[i].output = <<>>

\* C11: a term with at least one variable and no digit token read for its
\* coefficient is parsed with coefficient 1, whether or not '+'/'-' symbols
\* come before the variable; and a term with a variable is parsed with
\* coefficient 0 only when a digit run of value 0 was written.
C11_ImplicitCoefficient ==
    [][pc = "parse"
       /\ Len(ast') = Len(ast) + 1
       /\ Len(ast'[Len(ast')].variables) > 0
       => /\ DigitRunLen(CoefficientRun(tokens)) = 0
               => FEq(ast'[Len(ast')].coefficient, One)
          /\ FEq(ast'[Len(ast')].coefficient, Zero)
               => /\ DigitRunLen(CoefficientRun(tokens)) >= 1
                  /\ FEq(RunValue(CoefficientRun(tokens),
                                  DigitRunLen(CoefficientRun(tokens))),
                         Zero)]_vars

\* C12: every signature present in the terms map has a coefficient
\* different from 0, whatever add_term calls built the map.
C12_NonzeroEntries ==
    \A k \in DOMAIN expression.terms : ~FEq(get_term(expression, k), Zero)

\* C13: once combine_like_terms has made its add_term calls,
\* get_variables() holds every variable name of every signature that was
\* passed to add_term, the second and later variables of a signature and
\* the variables of terms with coefficient 0 included.
C13_VariableSet ==
    pc = "print" =>
        \A i \in 1..Len(ast) :
            \A j \in 1..Len(term_identifier(ast[i])) :
                term_identifier(ast[i])[j][1] \in get_variables(expression)

\* The characters of s that are not whitespace, in order.
RECURSIVE Unspaced(_)
Unspaced(s) ==
    IF s = <<>> THEN <<>>
    ELSE (IF is_whitespace(Head(s)) THEN <<>> ELSE <<Head(s)>>)
         \o Unspaced(Tail(s))

\* The characters a token stands for.
TokenText(tok) ==
    IF tok.kind = "Number" THEN <<Digits[tok.n.mag + 1]>> ELSE tok.text

RECURSIVE TokensText(_)
TokensText(toks) ==
    IF toks = <<>> THEN <<>> ELSE TokenText(Head(toks)) \o TokensText(Tail(toks))

\* C14: Lexer::lex returns Ok for the input of every call; the tokens, in
\* order, spell the input without its whitespace, so that every digit
\* character gives one Number token at its position; and no Identifier
\* token holds a digit, also after a keyword.
C14_DigitRule ==
    /\ lex(input).ok
    /\ TokensText(lex(input).tokens) = Unspaced(input)
    /\ \A i \in 1..Len(lex(input).tokens) :
           lex(input).tokens[i].kind = "Identifier"
               => \A j \in 1..Len(lex(input).tokens[i].text) :
                      ~is_numeric(lex(input).tokens[i].text[j])

\* The HashableFloat values combine_like_terms makes for the parsed terms.
HashableFloats ==
    UNION {{ast[i].variables[j].exponent : j \in 1..Len(ast[i].variables)} :
           i \in 1..Len(ast)}

\* C15: any two HashableFloat values that are equal under approx_eq feed
\* the same bits to the hasher.
C15_HashEqConsistent ==
    \A a, b \in HashableFloats : approx_eq(a, b) => hash(a) = hash(b)

\* The sort_by closure of get_sorted_term_sigs is a strict total order on
\* the signatures in S.
StrictTotalOrder(S) ==
    /\ \A a, b \in S : sig_cmp(a, b) = "Equal" <=> a = b
    /\ \A a, b \in S : sig_cmp(a, b) = "Less" <=> sig_cmp(b, a) = "Greater"
    /\ \A a, b, c \in S :
           sig_cmp(a, b) = "Less" /\ sig_cmp(b, c) = "Less"
               => sig_cmp(a, c) = "Less"

\* C16 (checked under SpecTwice): the comparator of get_sorted_term_sigs
\* is a strict total order on the signatures stored in the map, the
\* rendered string is the same for every order in which the map yields its
\* keys, and two runs on the same input give the same result.
C16_DeterministicRendering ==
    /\ StrictTotalOrder(DOMAIN expression.terms)
    /\ Rendered =>
           \A iteration \in SeqPerms(DOMAIN expression.terms) :
               print_out_expression(expression, get_sorted_term_sigs(iteration))
                   = Last.output
    /\ Len(results) >= 2 /\ results[1].input = results[2].input
           => /\ results[1].status = results[2].status
              /\ results[1].output = results[2].output
====
